---- MODULE Spec2Model ----
(***************************************************************************)
(* State-machine model of the two HTTP handlers of the article generator:  *)
(*   POST /api/generate  (src/app/api/generate/route.ts)                   *)
(*   POST /api/search    (src/app/api/search/route.ts)                     *)
(* A JavaScript value is a record [t, v]: t is its runtime type and v the  *)
(* characters of a string (a sequence of one-character strings).           *)
(***************************************************************************)
EXTENDS Integers, Sequences, FiniteSets, TLC

VARIABLES
    env,        \* process.env of the generate route: AI_API_KEY, OPENAI_API_KEY
    pc,         \* position of the generate handler
    req,        \* the parsed body of the request being handled
    timer,      \* the 120 s abort timer: unset, armed, cleared, fired
    fetchCount, \* outbound completion requests issued for this request
    fetchErr,   \* the value the completion fetch rejected with
    upstream,   \* status line of the completion response
    bodyIn,     \* what was read from the completion response body
    resp,       \* the HTTP response of the generate handler
    sent,       \* the system and user prompts of the completion request
    skey,       \* SERPSTACK_API_KEY, read once at module load
    spc,        \* position of the search handler
    sreq,       \* the parsed body of the search request
    provider,   \* what the search provider did for the request
    calls,      \* provider requests issued for this search request
    sresp,      \* the HTTP response of the search handler
    call,       \* a call of one of the prompt functions: its arguments
    out,        \* what that call returned
    given,      \* the inputs two runs of the generate handler share
    runs,       \* two runs of the generate handler against a completion stub
    form,       \* the form page: its title and its models state
    inflight,   \* the /api/search requests of the page that have not settled
    payload,    \* the body of the last /api/generate request of the page
    saved,      \* what the form page saved after the first generation
    stored,     \* sessionStorage "generatedArticle"
    view,       \* the state of the result page
    regen,      \* where handleRegenerate is, and the requests it has issued
    exported    \* the last text copied or downloaded from the result page

gvars == <<env, pc, req, timer, fetchCount, fetchErr, upstream, bodyIn, resp,
           sent>>
svars == <<skey, spc, sreq, provider, calls, sresp>>
pvars == <<call, out>>
dvars == <<given, runs>>
fvars == <<form, inflight, payload>>
rvars == <<saved, stored, view, regen, exported>>
vars == <<env, pc, req, timer, fetchCount, fetchErr, upstream, bodyIn, resp,
          sent, skey, spc, sreq, provider, calls, sresp, call, out,
          given, runs, form, inflight, payload,
          saved, stored, view, regen, exported>>

\* what each part of the program leaves alone
xgvars == <<svars, pvars, dvars, fvars, rvars>>
xsvars == <<gvars, pvars, dvars, fvars, rvars>>
xpvars == <<gvars, svars, dvars, fvars, rvars>>
xdvars == <<gvars, svars, pvars, fvars, rvars>>
xfvars == <<gvars, svars, pvars, dvars, rvars>>
xrvars == <<gvars, svars, pvars, dvars, fvars>>

----------------------------------------------------------------------------
(* Bounds of the model *)

\* longest models array a request carries
MaxModels == 4
\* longest upstream error body, in characters
MaxBodyLen == 201
\* most raw organic results a provider response carries
MaxRaw == 2

(* Program constants *)

\* .slice(0, 3): names kept from the request
KeepModels == 3
\* errorText.substring(0, 200) in the upstream-error message
ErrTextLen == 200

----------------------------------------------------------------------------
(* JavaScript values *)

JUndef == [t |-> "undefined", v |-> <<>>]
JNum == [t |-> "number", v |-> <<>>]
JStr(s) == [t |-> "string", v |-> s]

\* ToBoolean on the values above (the number is a non-zero one)
Truthy(x) == x.t = "number" \/ (x.t = "string" /\ Len(x.v) > 0)

\* a || b
OrElse(a, b) == IF Truthy(a) THEN a ELSE b

RECURSIVE TrimStart(_)
TrimStart(s) ==
    IF Len(s) = 0 THEN s
    ELSE IF Head(s) = " " THEN TrimStart(Tail(s)) ELSE s

RECURSIVE TrimEnd(_)
TrimEnd(s) ==
    IF Len(s) = 0 THEN s
    ELSE IF s[Len(s)] = " " THEN TrimEnd(SubSeq(s, 1, Len(s) - 1)) ELSE s

\* String.prototype.trim
Trim(s) == TrimEnd(TrimStart(s))

\* String.prototype.substring(0, n)
Substring(s, n) == SubSeq(s, 1, IF Len(s) < n THEN Len(s) ELSE n)

\* Array.prototype.filter(Boolean) on an array of strings
RECURSIVE FilterNonEmpty(_)
FilterNonEmpty(xs) ==
    IF Len(xs) = 0 THEN <<>>
    ELSE IF Len(Head(xs)) > 0 THEN <<Head(xs)>> \o FilterNonEmpty(Tail(xs))
         ELSE FilterNonEmpty(Tail(xs))

\* Array.prototype.slice(0, n)
Slice(xs, n) == SubSeq(xs, 1, IF Len(xs) < n THEN Len(xs) ELSE n)

----------------------------------------------------------------------------
(* Errors and responses, shared by both handlers *)

\* An error message: which template produced it (kind), the upstream status
\* and text interpolated into it, and the phrases its text contains (what
\* String.prototype.includes can find in it).
Msg(kind, status, text, words) ==
    [kind |-> kind, status |-> status, text |-> text, words |-> words]

NoMsg == Msg("", 0, <<>>, {})

\* A thrown value: an Error object (isError) with its name and message, or
\* some other value.
Exc(isError, name, message) ==
    [isError |-> isError, name |-> name, message |-> message]

NoExc == Exc(FALSE, "", NoMsg)

\* new Error(message)
NewError(message) == Exc(TRUE, "Error", message)

\* what request.json() / response.json() rejects with on a body that is not JSON
SyntaxErr == Exc(TRUE, "SyntaxError", Msg("not JSON", 0, <<>>, {}))

\* what a property read of null or a call of a missing method throws
TypeErr == Exc(TRUE, "TypeError", Msg("TypeError", 0, <<>>, {}))

NoMeta ==
    [title |-> <<>>, models |-> <<>>, contentType |-> JUndef,
     stylePreference |-> JUndef, generatedAt |-> 0]

\* The keys of a JSON response body and the HTTP status it is sent with.
NoResponse ==
    [status |-> 0, hasError |-> FALSE, error |-> NoMsg, success |-> FALSE,
     hasArticle |-> FALSE, article |-> JUndef,
     hasMetadata |-> FALSE, metadata |-> NoMeta]

\* Response.json({ error: message }, { status })
ErrorResponse(status, message) ==
    [NoResponse EXCEPT !.status = status, !.hasError = TRUE, !.error = message]

----------------------------------------------------------------------------
(* POST /api/generate: the request *)

Titles == {JUndef, JNum, JStr(<<" ">>), JStr(<<" ", "t", " ">>)}

ModelEntries == {JStr(<<" ">>), JStr(<<" ", "a">>), JStr(<<"b">>), JNum}

ModelsFields ==
    {[t |-> "undefined", v |-> <<>>], [t |-> "number", v |-> <<>>]}
    \cup {[t |-> "array", v |-> xs] :
            xs \in UNION {[1..n -> ModelEntries] : n \in 0..MaxModels}}

\* a search result item whose texts end in the character c
Item(c) == [title |-> <<"t", c>>, snippet |-> <<"s", c>>]

SearchDatas ==
    {[t |-> "undefined", v |-> <<>>],
     [t |-> "object", v |-> <<>>],
     [t |-> "object", v |-> [k \in {<<"a">>} |-> <<>>]],
     [t |-> "object", v |-> [k \in {<<"a">>} |-> <<Item("1")>>]],
     [t |-> "object",
      v |-> [k \in {<<"a">>, <<"b">>} |->
                IF k = <<"a">> THEN <<Item("1")>> ELSE <<Item("2"), Item("3")>>]]}

ContentTypes == {JUndef, JStr(<<"beauty">>)}

StylePreferences == {JStr(<<>>), JStr(<<"rational">>)}

Body(t, title, models, searchData, contentType, stylePreference) ==
    [t |-> t, title |-> title, models |-> models, searchData |-> searchData,
     contentType |-> contentType, stylePreference |-> stylePreference]

NoBody ==
    Body("none", JUndef, [t |-> "undefined", v |-> <<>>],
         [t |-> "undefined", v |-> <<>>], JUndef, JUndef)

\* bodies that are not JSON, the JSON value null, and JSON objects
Bodies ==
    {[NoBody EXCEPT !.t = "malformed"], [NoBody EXCEPT !.t = "null"]}
    \cup {Body("object", ti, m, sd, ct, sp) :
            ti \in Titles, m \in ModelsFields, sd \in SearchDatas,
            ct \in ContentTypes, sp \in StylePreferences}

Envs ==
    [AI_API_KEY : {JUndef, JStr(<<"k">>)},
     OPENAI_API_KEY : {JUndef, JStr(<<"k">>)}]

----------------------------------------------------------------------------
(* POST /api/generate: lines 66-105, up to the completion fetch *)

MsgTitleRequired == Msg("title required", 0, <<>>, {})
MsgMissingSearchData == Msg("missing searchData", 0, <<>>, {})
MsgNoCredential == Msg("AI_API_KEY not configured", 0, <<>>, {})
MsgTimeout == Msg("request timed out (120 s)", 0, <<>>, {})
MsgCannotConnect == Msg("cannot connect to API server", 0, <<>>, {})
MsgNetworkRetry == Msg("network request failed, retry later", 0, <<>>, {})
MsgEmpty == Msg("generated content is empty", 0, <<>>, {})
MsgGenerateFailed == Msg("generate failed", 0, <<>>, {})

\* `network request failed: ${fetchError.message}`
MsgNetwork(message) == Msg("network request failed", 0, <<>>, message.words)

\* `API call failed (${response.status}): ${errorText.substring(0, 200)}`
MsgApiFailed(status, errorText) ==
    Msg("API call failed", status, Substring(errorText, ErrTextLen), {})

\* await request.json() rejects
ParseThrows(b) == b.t = "malformed"

\* body.title?.trim() throws: body is null, or title has no trim method
TitleThrows(b) == b.t = "null" \/ b.title.t = "number"

\* body.title?.trim()
TitleOf(b) == IF b.title.t = "string" THEN JStr(Trim(b.title.v)) ELSE JUndef

\* (body.models || []).map((m) => m.trim()) throws: models is a truthy value
\* without map, or an entry has no trim method
ModelsThrows(b) ==
    \/ b.models.t = "number"
    \/ /\ b.models.t = "array"
       /\ \E i \in 1..Len(b.models.v) : b.models.v[i].t # "string"

\* .map((m) => m.trim())
MapTrim(xs) == [i \in 1..Len(xs) |-> Trim(xs[i].v)]

\* mutant: the names are not cut to the first three
NormalizeModelsNoSlice(m) ==
    IF m.t = "array" THEN FilterNonEmpty(MapTrim(m.v)) ELSE <<>>

\* (body.models || []).map((m) => m.trim()).filter(Boolean).slice(0, 3)
NormalizeModels(m) ==
    IF m.t = "array" THEN Slice(FilterNonEmpty(MapTrim(m.v)), KeepModels)
    ELSE <<>>

\* mutant: search data demanded whether or not product names were given
SearchDataMissingAlways(hasModels, sd) ==
    sd.t = "undefined" \/ DOMAIN sd.v = {}

\* hasModels && (!body.searchData || Object.keys(body.searchData).length === 0)
SearchDataMissing(hasModels, sd) ==
    hasModels /\ (sd.t = "undefined" \/ DOMAIN sd.v = {})

\* process.env.AI_API_KEY || process.env.OPENAI_API_KEY
ApiKey(e) == OrElse(e.AI_API_KEY, e.OPENAI_API_KEY)

\* mutant: no catch, the exception leaves the handler
HandlerRethrow(e) == [NoResponse EXCEPT !.status = -1]

\* the catch of the handler: every exception becomes a 500 {error}
HandlerCatch(e) ==
    ErrorResponse(500, IF e.isError THEN e.message ELSE MsgGenerateFailed)

\* metadata of the 200 response; now is what new Date() reads
Metadata(b, now) ==
    [title |-> TitleOf(b).v,
     models |-> NormalizeModels(b.models),
     contentType |-> OrElse(b.contentType, JStr(<<"discussion">>)),
     stylePreference |-> OrElse(b.stylePreference, JStr(<<"random">>)),
     generatedAt |-> now]

----------------------------------------------------------------------------
(* Prompt texts.  A text is a sequence whose elements are the characters   *)
(* of the interpolated strings and, for each fixed passage of a template,  *)
(* one element naming the passage.                                         *)

\* Array.prototype.join(sep) on an array of texts
RECURSIVE Join(_, _)
Join(xs, sep) ==
    IF Len(xs) = 0 THEN <<>>
    ELSE IF Len(xs) = 1 THEN xs[1]
    ELSE xs[1] \o sep \o Join(Tail(xs), sep)

\* a prompt file: missing, or present with its content
NoFile == [exists |-> FALSE, text |-> <<>>]
File(text) == [exists |-> TRUE, text |-> text]

\* lines 22-28: safeRead
SafeRead(file) == IF file.exists THEN Trim(file.text) ELSE <<>>

\* lines 34-38: the guidance texts loaded at module load
LoadAssets(files) ==
    [appliance |-> SafeRead(files.appliance),
     beauty |-> SafeRead(files.beauty),
     gift |-> SafeRead(files.gift),
     discussion |-> SafeRead(files.discussion)]

\* the prompts directory as deployed: every guidance file present
InstalledFiles ==
    [appliance |-> File(<<"A">>), beauty |-> File(<<"B">>),
     gift |-> File(<<"G">>), discussion |-> File(<<"D">>)]

\* lines 46-64: zhihuPersona
ZhihuPersona == <<"[persona]">>

\* mutant: no fallback to the discussion guidance
SelectContentPromptNoFallback(assets, contentType) ==
    IF contentType = JStr(<<"appliance">>) THEN assets.appliance
    ELSE IF contentType = JStr(<<"beauty">>) THEN assets.beauty
    ELSE IF contentType = JStr(<<"gift">>) THEN assets.gift
    ELSE assets.discussion

\* lines 328-339: selectContentPrompt
SelectContentPrompt(assets, contentType) ==
    IF contentType = JStr(<<"appliance">>)
    THEN (IF Len(assets.appliance) > 0 THEN assets.appliance
          ELSE assets.discussion)
    ELSE IF contentType = JStr(<<"beauty">>)
    THEN (IF Len(assets.beauty) > 0 THEN assets.beauty ELSE assets.discussion)
    ELSE IF contentType = JStr(<<"gift">>)
    THEN (IF Len(assets.gift) > 0 THEN assets.gift ELSE assets.discussion)
    ELSE assets.discussion

\* lines 341-350: selectStyleHint
SelectStyleHint(stylePreference) ==
    IF stylePreference = JStr(<<"rational">>) THEN <<"[system-hint-rational]">>
    ELSE IF stylePreference = JStr(<<"experience">>)
    THEN <<"[system-hint-experience]">>
    ELSE <<>>

\* mutant: the two hints exchanged
UserStyleHintSwapped(writingStyle) ==
    IF writingStyle = JStr(<<"rational">>) THEN <<"[user-hint-experience]">>
    ELSE IF writingStyle = JStr(<<"experience">>)
    THEN <<"[user-hint-rational]">>
    ELSE <<>>

\* lines 200-205: styleHint of buildPrompt
UserStyleHint(writingStyle) ==
    IF writingStyle = JStr(<<"rational">>) THEN <<"[user-hint-rational]">>
    ELSE IF writingStyle = JStr(<<"experience">>)
    THEN <<"[user-hint-experience]">>
    ELSE <<>>

\* mutant: the fragrance passage for every content type
FragranceBlockAlways(contentType) == <<"[fragrance-notes]">>

\* lines 230-240: the fragrance passage of the product template
FragranceBlock(contentType) ==
    IF contentType = JStr(<<"beauty">>) THEN <<"[fragrance-notes]">> ELSE <<>>

\* lines 209-257: the template used with products
ProductTemplate(title, models, searchDigest, writingStyle, contentType) ==
    <<"[answering]">> \o title
    \o <<"[core-rules]", "[examples-are]">> \o Join(models, <<",">>)
    \o <<"[uneven-coverage]", "[suits-and-not]", "[no-list-feel]",
         "[judgement-not-specs]">>
    \o FragranceBlock(contentType)
    \o <<"[language-style]">> \o UserStyleHint(writingStyle)
    \o <<"[ending]", "[background-follows]">> \o searchDigest
    \o <<"[output-directly]">>

\* lines 260-288: the template used without products
PlainTemplate(title, writingStyle) ==
    <<"[answering]">> \o title
    \o <<"[plain-requirements]", "[no-ai-words]", "[plain-style]",
         "[start-directly]">>
    \o UserStyleHint(writingStyle)

\* mutant: the product template whether or not there are products
BuildPromptProducts(title, models, searchDigest, hasModels, writingStyle, contentType) ==
    ProductTemplate(title, models, searchDigest, writingStyle, contentType)

\* lines 185-290: buildPrompt
BuildPrompt(title, models, searchDigest, hasModels, writingStyle, contentType) ==
    IF hasModels
    THEN ProductTemplate(title, models, searchDigest, writingStyle, contentType)
    ELSE PlainTemplate(title, writingStyle)

\* items.slice(0, 4)
DigestItems == 4

\* `- ${i.title}：${i.snippet}`
DigestLine(item) == <<"- ">> \o item.title \o <<":">> \o item.snippet

\* the names that every object inherits from Object.prototype with a
\* function of one or more declared parameters as value
InheritedFunctions == {<<"constructor">>}

\* searchData[model]: the own property when there is one, else what the
\* object inherits under that name, else undefined
Lookup(searchData, model) ==
    IF model \in DOMAIN searchData
    THEN [t |-> "array", v |-> searchData[model]]
    ELSE IF model \in InheritedFunctions
    THEN [t |-> "function", v |-> <<>>]
    ELSE [t |-> "undefined", v |-> <<>>]

\* searchData[model] || []
ItemsOf(searchData, model) == Lookup(searchData, model).v

\* a function is truthy and its length is not 0, so items.slice is called on
\* it: TypeError 'items.slice is not a function'
DigestThrows(models, searchData) ==
    \E i \in 1..Len(models) : Lookup(searchData, models[i]).t = "function"

\* mutant: every stored snippet is rendered
DigestBlockAll(model, items) ==
    IF Len(items) = 0 THEN model \o <<"[:no-summary]">>
    ELSE model \o <<":", "NL">>
         \o Join([i \in 1..Len(items) |-> DigestLine(items[i])], <<"NL">>)

\* lines 299-306: the block of one model
DigestBlock(model, items) ==
    IF Len(items) = 0 THEN model \o <<"[:no-summary]">>
    ELSE model \o <<":", "NL">>
         \o Join([i \in 1..Len(Slice(items, DigestItems)) |->
                     DigestLine(Slice(items, DigestItems)[i])],
                 <<"NL">>)

\* lines 294-308: formatSearchData
FormatSearchData(models, searchData) ==
    Join([i \in 1..Len(models) |->
             DigestBlock(models[i], ItemsOf(searchData, models[i]))],
         <<"NL", "NL">>)

\* [zhihuPersona, contentPrompt, styleHint].filter(Boolean).join("\n\n")
SystemPrompt(contentPrompt, styleHint) ==
    Join(FilterNonEmpty(<<ZhihuPersona, contentPrompt, styleHint>>),
         <<"NL", "NL">>)

NoSent == [system |-> <<>>, user |-> <<>>]

\* lines 79-97 and 118-123: the messages of the completion request
SentOf(b) ==
    LET models == NormalizeModels(b.models)
        hasModels == Len(models) > 0
        contentType == OrElse(b.contentType, JStr(<<"discussion">>))
        stylePreference == OrElse(b.stylePreference, JStr(<<"random">>))
        searchDigest ==
            IF hasModels
            THEN FormatSearchData(models,
                                  IF b.searchData.t = "object"
                                  THEN b.searchData.v ELSE <<>>)
            ELSE <<>>
    IN [system |->
            SystemPrompt(SelectContentPrompt(LoadAssets(InstalledFiles),
                                             contentType),
                         SelectStyleHint(stylePreference)),
        user |->
            BuildPrompt(TitleOf(b).v, models, searchDigest, hasModels,
                        stylePreference, contentType)]

\* The handler from its entry to the fetch call: the response it returns
\* before any network call, or NoResponse when it goes on to the fetch.
BeforeFetch(b, e) ==
    IF ParseThrows(b) THEN HandlerCatch(SyntaxErr)
    ELSE IF TitleThrows(b) \/ ModelsThrows(b) THEN HandlerCatch(TypeErr)
    ELSE IF ~Truthy(TitleOf(b)) THEN ErrorResponse(400, MsgTitleRequired)
    ELSE IF SearchDataMissing(Len(NormalizeModels(b.models)) > 0, b.searchData)
         THEN ErrorResponse(400, MsgMissingSearchData)
    ELSE IF DigestThrows(NormalizeModels(b.models),
                         IF b.searchData.t = "object" THEN b.searchData.v
                         ELSE <<>>)
         THEN HandlerCatch(TypeErr)
    ELSE IF ~Truthy(ApiKey(e)) THEN ErrorResponse(500, MsgNoCredential)
    ELSE NoResponse

\* a request arrives; the handler runs to its first response or to the fetch
GenStart ==
    /\ pc = "idle"
    /\ \E b \in Bodies :
         /\ req' = b
         /\ resp' = BeforeFetch(b, env)
         /\ IF BeforeFetch(b, env) = NoResponse
            THEN /\ pc' = "awaitFetch"
                 /\ timer' = "armed"
                 /\ fetchCount' = fetchCount + 1
                 /\ sent' = SentOf(b)
            ELSE /\ pc' = "done"
                 /\ UNCHANGED <<timer, fetchCount, sent>>
    /\ UNCHANGED <<env, fetchErr, upstream, bodyIn>>
    /\ UNCHANGED xgvars

----------------------------------------------------------------------------
(* POST /api/generate: lines 107-180, the completion call *)

\* what fetch() can reject with before the abort timer fires: the runtime's
\* connection failure (Node: "fetch failed", browsers: "Failed to fetch"),
\* an error whose text mentions a timeout, any other error, a non-Error value
FetchErrors ==
    {Exc(TRUE, "TypeError", Msg("", 0, <<>>, {"fetch failed"})),
     Exc(TRUE, "TypeError", Msg("", 0, <<>>, {"Failed to fetch"})),
     Exc(TRUE, "Error", Msg("", 0, <<>>, {"timeout"})),
     Exc(TRUE, "Error", Msg("", 0, <<>>, {})),
     Exc(FALSE, "", NoMsg)}

\* what fetch() rejects with when controller.abort() is called
AbortError == Exc(TRUE, "AbortError", Msg("", 0, <<>>, {"aborted"}))

UpstreamStatuses == {200, 401, 500}

NoUpstream == [status |-> 0, statusText |-> <<>>]

\* response.ok
Ok(up) == up.status \in 200..299

\* a text of n characters, all different
TextOfLen(n) == [i \in 1..n |-> i]

\* readings of the clock
Times == {1, 2}

NoBodyIn == [t |-> "none", content |-> JUndef, text |-> <<>>]

\* outcomes of response.json(): not JSON, the value null, or an envelope with
\* data.choices?.[0]?.message?.content absent, empty or a text
JsonBodies ==
    {[NoBodyIn EXCEPT !.t = "unparsable"], [NoBodyIn EXCEPT !.t = "null"]}
    \cup {[NoBodyIn EXCEPT !.t = "object", !.content = c] :
            c \in {JUndef, JStr(<<>>), JStr(<<"x", " ">>), JStr(<<"y">>)}}

\* outcomes of response.text(): a failed read, or the body text
TextBodies ==
    {[NoBodyIn EXCEPT !.t = "textfail"]}
    \cup {[NoBodyIn EXCEPT !.t = "text", !.text = TextOfLen(n)] :
            n \in {0, 1, ErrTextLen, MaxBodyLen}}

\* mutant: every rejected fetch reported with the generic network message
FetchCatchGeneric(e) ==
    IF e.isError THEN NewError(MsgNetwork(e.message))
    ELSE NewError(MsgNetworkRetry)

\* lines 130-143: the error the inner catch throws for a rejected fetch
FetchCatch(e) ==
    IF e.isError
    THEN IF e.name = "AbortError" \/ "timeout" \in e.message.words
         THEN NewError(MsgTimeout)
         ELSE IF "Failed to fetch" \in e.message.words
                 \/ "fetch failed" \in e.message.words
              THEN NewError(MsgCannotConnect)
              ELSE NewError(MsgNetwork(e.message))
    ELSE NewError(MsgNetworkRetry)

\* lines 145-154: the error thrown for a response that is not ok
NotOkError(up, d) ==
    NewError(MsgApiFailed(up.status,
                          IF d.t = "textfail" THEN up.statusText ELSE d.text))

\* mutant: the article carries the time it was generated at
AfterJsonStamped(b, d, now) ==
    [NoResponse EXCEPT !.status = 200, !.success = TRUE, !.hasArticle = TRUE,
                       !.article = JStr(<<<<"1", "2">>[now]>>),
                       !.hasMetadata = TRUE,
                       !.metadata = Metadata(b, now)]

\* lines 156-173: the response for a body read from an ok response
AfterJson(b, d, now) ==
    IF d.t = "unparsable" THEN HandlerCatch(SyntaxErr)
    ELSE IF d.t = "null" THEN HandlerCatch(TypeErr)
    ELSE IF ~Truthy(OrElse(d.content, JStr(<<>>)))
         THEN HandlerCatch(NewError(MsgEmpty))
    ELSE [NoResponse EXCEPT !.status = 200, !.success = TRUE,
                            !.hasArticle = TRUE,
                            !.article = OrElse(d.content, JStr(<<>>)),
                            !.hasMetadata = TRUE,
                            !.metadata = Metadata(b, now)]

\* the completion endpoint answers with a status line: fetch resolves, the
\* handler clears the timer and starts reading the body
FetchResolves ==
    /\ pc = "awaitFetch"
    /\ \E st \in UpstreamStatuses :
         /\ upstream' = [status |-> st, statusText |-> <<0>>]
         /\ pc' = IF st \in 200..299 THEN "awaitJson" ELSE "awaitText"
    /\ timer' = "cleared"
    /\ UNCHANGED <<env, req, fetchCount, fetchErr, bodyIn, resp, sent>>
    /\ UNCHANGED xgvars

\* mutant: a rejected fetch is issued again
FetchRejectsRetry ==
    /\ pc = "awaitFetch"
    /\ \E e \in FetchErrors : fetchErr' = e
    /\ fetchCount' = fetchCount + 1
    /\ UNCHANGED <<env, pc, req, timer, upstream, bodyIn, resp, sent>>
    /\ UNCHANGED xgvars

\* fetch rejects before the timer fires
FetchRejects ==
    /\ pc = "awaitFetch"
    /\ \E e \in FetchErrors :
         /\ fetchErr' = e
         /\ resp' = HandlerCatch(FetchCatch(e))
    /\ timer' = "cleared"
    /\ pc' = "done"
    /\ UNCHANGED <<env, req, fetchCount, upstream, bodyIn, sent>>
    /\ UNCHANGED xgvars

\* the 120 s timer fires: controller.abort() makes the pending fetch reject
TimerFires ==
    /\ timer = "armed"
    /\ pc = "awaitFetch"
    /\ timer' = "fired"
    /\ fetchErr' = AbortError
    /\ resp' = HandlerCatch(FetchCatch(AbortError))
    /\ pc' = "done"
    /\ UNCHANGED <<env, req, fetchCount, upstream, bodyIn, sent>>
    /\ UNCHANGED xgvars

\* response.json() of an ok response settles
JsonArrives ==
    /\ pc = "awaitJson"
    /\ \E d \in JsonBodies, now \in Times :
         /\ bodyIn' = d
         /\ resp' = AfterJson(req, d, now)
    /\ pc' = "done"
    /\ UNCHANGED <<env, req, timer, fetchCount, fetchErr, upstream, sent>>
    /\ UNCHANGED xgvars

\* response.text() of a response that is not ok settles
TextArrives ==
    /\ pc = "awaitText"
    /\ \E d \in TextBodies :
         /\ bodyIn' = d
         /\ resp' = HandlerCatch(NotOkError(upstream, d))
    /\ pc' = "done"
    /\ UNCHANGED <<env, req, timer, fetchCount, fetchErr, upstream, sent>>
    /\ UNCHANGED xgvars

----------------------------------------------------------------------------
(* POST /api/search: src/app/api/search/route.ts *)

MsgModelRequired == Msg("model required", 0, <<>>, {})
MsgNoSearchKey == Msg("SERPSTACK_API_KEY not configured", 0, <<>>, {})
MsgNoResults == Msg("could not get search results", 0, <<>>, {})
MsgSearchFailed == Msg("search failed", 0, <<>>, {})

\* `Serpstack API HTTP ${res.status}: ${text.substring(0, 100)}`
MsgSerpHttp == Msg("Serpstack API HTTP", 0, <<>>, {})

\* `Serpstack API error: ${errorMsg}`
MsgSerpError(words) == Msg("Serpstack API error", 0, <<>>, words)

SearchModels == {JUndef, JNum, JStr(<<" ">>), JStr(<<" ", "m", " ">>)}

NoSearchBody == [t |-> "none", model |-> JUndef]

SearchBodies ==
    {[NoSearchBody EXCEPT !.t = "malformed"], [NoSearchBody EXCEPT !.t = "null"]}
    \cup {[t |-> "object", model |-> m] : m \in SearchModels}

\* a text field of a provider answer: absent, or a text containing the phrases
NoField == [present |-> FALSE, words |-> {}]
Field(words) == [present |-> TRUE, words |-> words]

\* data.error: absent, or an object with optional info and type
NoProviderError == [present |-> FALSE, info |-> NoField, type |-> NoField]

ProviderErrors ==
    {NoProviderError,
     [present |-> TRUE, info |-> Field({"API Access Key"}),
      type |-> Field({"invalid_access_key"})],
     [present |-> TRUE, info |-> NoField, type |-> Field({"invalid_access_key"})],
     [present |-> TRUE, info |-> Field({"usage limit"}),
      type |-> Field({"usage_limit_reached"})],
     [present |-> TRUE, info |-> NoField, type |-> NoField]}

\* a raw organic result: each of title, snippet, url absent, empty or a text
RawItems ==
    {[title |-> JStr(<<"T">>), snippet |-> JStr(<<"S">>), url |-> JStr(<<"U">>)],
     [title |-> JStr(<<"V">>), snippet |-> JStr(<<"W">>), url |-> JStr(<<"X">>)],
     [title |-> JUndef, snippet |-> JStr(<<"S">>), url |-> JStr(<<"U">>)],
     [title |-> JStr(<<"T">>), snippet |-> JStr(<<>>), url |-> JStr(<<"U">>)],
     [title |-> JStr(<<"T">>), snippet |-> JStr(<<"S">>), url |-> JUndef]}

\* &num=10: the number of results asked of the provider
RequestedNum == 10

\* provider answers as long as the requested number and one longer: complete
\* results, and the same with one incomplete result among them
LongLists ==
    {[i \in 1..n |->
         IF i = gap
         THEN [title |-> JUndef, snippet |-> JStr(<<"S">>),
               url |-> JStr(<<"U">>)]
         ELSE IF i % 2 = 1
         THEN [title |-> JStr(<<"T">>), snippet |-> JStr(<<"S">>),
               url |-> JStr(<<"U">>)]
         ELSE [title |-> JStr(<<"V">>), snippet |-> JStr(<<"W">>),
               url |-> JStr(<<"X">>)]] :
       n \in {RequestedNum, RequestedNum + 1}, gap \in {0, 2}}

NoOutcome ==
    [t |-> "none", error |-> NoProviderError, hasOrganic |-> FALSE,
     organic |-> <<>>]

\* what the provider does: the connection fails, it answers with a status
\* that is not ok (the body readable or not), or it answers ok with a body
\* that is not JSON, is null, or is an object with error and organic_results
Outcomes ==
    {[NoOutcome EXCEPT !.t = k] :
        k \in {"transport", "notok", "notok unreadable", "unparsable", "null"}}
    \cup {[NoOutcome EXCEPT !.t = "json", !.error = e] : e \in ProviderErrors}
    \cup {[t |-> "json", error |-> e, hasOrganic |-> TRUE, organic |-> xs] :
            e \in ProviderErrors,
            xs \in UNION {[1..n -> RawItems] : n \in 0..MaxRaw}}
    \cup {[t |-> "json", error |-> NoProviderError, hasOrganic |-> TRUE,
           organic |-> xs] : xs \in LongLists}

\* data.error.info || data.error.type || JSON.stringify(data.error)
ErrorMsgOf(e) ==
    IF e.info.present THEN e.info.words
    ELSE IF e.type.present THEN e.type.words ELSE {"{}"}

\* .filter((item) => item.title && item.snippet && item.url)
RECURSIVE FilterComplete(_)
FilterComplete(xs) ==
    IF Len(xs) = 0 THEN <<>>
    ELSE IF Truthy(Head(xs).title) /\ Truthy(Head(xs).snippet)
            /\ Truthy(Head(xs).url)
         THEN <<Head(xs)>> \o FilterComplete(Tail(xs))
         ELSE FilterComplete(Tail(xs))

\* .map((item) => ({title, snippet, link: item.url, source: "serpstack"}))
MapResult(xs) ==
    [i \in 1..Len(xs) |->
        [title |-> xs[i].title.v, snippet |-> xs[i].snippet.v,
         link |-> xs[i].url.v, source |-> "serpstack"]]

\* The result of a call: an exception, null, or a list.
Thrown(e) == [thrown |-> TRUE, exc |-> e, isNull |-> FALSE, list |-> <<>>]
Null == [thrown |-> FALSE, exc |-> NoExc, isNull |-> TRUE, list |-> <<>>]
List(xs) == [thrown |-> FALSE, exc |-> NoExc, isNull |-> FALSE, list |-> xs]

\* lines 46-82: the try block of querySerpstack
QueryTry(o) ==
    IF o.t = "transport"
    THEN Thrown(Exc(TRUE, "TypeError", Msg("", 0, <<>>, {"fetch failed"})))
    ELSE IF o.t = "notok" THEN Thrown(NewError(MsgSerpHttp))
    ELSE IF o.t = "notok unreadable" THEN Thrown(TypeErr)
    ELSE IF o.t = "unparsable" THEN Thrown(SyntaxErr)
    ELSE IF o.t = "null" THEN Thrown(TypeErr)
    ELSE IF o.error.present
         THEN Thrown(NewError(MsgSerpError(ErrorMsgOf(o.error))))
    ELSE IF Len(o.organic) = 0 THEN Null
    ELSE List(MapResult(FilterComplete(o.organic)))

\* mutant: no catch, the exception reaches the handler
QuerySerpstackRethrow(o) == QueryTry(o)

\* lines 45-87: querySerpstack, whose catch turns every exception into null
QuerySerpstack(o) == IF QueryTry(o).thrown THEN Null ELSE QueryTry(o)

NoSearchResponse ==
    [status |-> 0, hasError |-> FALSE, error |-> NoMsg,
     hasModel |-> FALSE, model |-> <<>>, hasResults |-> FALSE, results |-> <<>>]

\* NextResponse.json({ error: message }, { status })
SearchError(status, message) ==
    [NoSearchResponse EXCEPT !.status = status, !.hasError = TRUE,
                             !.error = message]

\* lines 36-42: the catch of the search handler
SearchCatch(e) ==
    LET message == IF e.isError THEN e.message ELSE MsgSearchFailed
    IN SearchError(IF "invalid_access_key" \in message.words
                      \/ "API Access Key" \in message.words
                   THEN 401 ELSE 500,
                   message)

\* body.model?.trim() throws
SearchModelThrows(b) == b.t = "null" \/ b.model.t = "number"

\* body.model?.trim()
SearchModelOf(b) ==
    IF b.model.t = "string" THEN JStr(Trim(b.model.v)) ELSE JUndef

\* lines 17-27: the response returned before any provider request, or
\* NoSearchResponse when the handler goes on to querySerpstack
BeforeQuery(b, key) ==
    IF b.t = "malformed" THEN SearchCatch(SyntaxErr)
    ELSE IF SearchModelThrows(b) THEN SearchCatch(TypeErr)
    ELSE IF ~Truthy(SearchModelOf(b)) THEN SearchError(400, MsgModelRequired)
    ELSE IF ~Truthy(key) THEN SearchError(500, MsgNoSearchKey)
    ELSE NoSearchResponse

\* mutant: an empty list is not treated as no results
NoResultsNullOnly(r) == r.isNull

\* !results || results.length === 0
NoResults(r) == r.isNull \/ Len(r.list) = 0

\* lines 29-35 and the catch: the response once querySerpstack has settled
AfterQuery(b, r) ==
    IF r.thrown THEN SearchCatch(r.exc)
    ELSE IF NoResults(r) THEN SearchError(502, MsgNoResults)
    ELSE [NoSearchResponse EXCEPT !.status = 200,
                                  !.hasModel = TRUE, !.model = SearchModelOf(b).v,
                                  !.hasResults = TRUE, !.results = r.list]

\* a search request arrives
SearchStart ==
    /\ spc = "idle"
    /\ \E b \in SearchBodies :
         /\ sreq' = b
         /\ sresp' = BeforeQuery(b, skey)
         /\ IF BeforeQuery(b, skey) = NoSearchResponse
            THEN spc' = "awaitProvider" /\ calls' = calls + 1
            ELSE spc' = "done" /\ UNCHANGED calls
    /\ UNCHANGED <<skey, provider>>
    /\ UNCHANGED xsvars

\* the provider request settles and the handler responds
ProviderAnswers ==
    /\ spc = "awaitProvider"
    /\ \E o \in Outcomes :
         /\ provider' = o
         /\ sresp' = AfterQuery(sreq, QuerySerpstack(o))
    /\ spc' = "done"
    /\ UNCHANGED <<skey, sreq, calls>>
    /\ UNCHANGED xsvars

----------------------------------------------------------------------------
(* The prompt functions called on their own: buildPrompt, formatSearchData, *)
(* selectContentPrompt and selectStyleHint, each on arguments drawn from    *)
(* the sets below.                                                          *)

\* longest models array handed to a prompt function
MaxCallModels == 3
\* most snippets stored under one searchData key
MaxSnippets == 5

MissingFiles ==
    [appliance |-> NoFile, beauty |-> NoFile, gift |-> NoFile,
     discussion |-> NoFile]

NoCall ==
    [fn |-> "none", title |-> <<>>, models |-> <<>>, searchDigest |-> <<>>,
     hasModels |-> FALSE, writingStyle |-> JUndef, contentType |-> JUndef,
     files |-> MissingFiles, searchData |-> <<>>]

NoOut == [done |-> FALSE, threw |-> FALSE, text |-> <<>>]

WritingStyles ==
    {JStr(<<"rational">>), JStr(<<"experience">>), JStr(<<"random">>),
     JStr(<<"formal">>), JStr(<<>>), JUndef}

CallContentTypes ==
    {JStr(<<"appliance">>), JStr(<<"beauty">>), JStr(<<"gift">>),
     JStr(<<"discussion">>), JStr(<<"travel">>), JUndef}

\* names handed to formatSearchData; "constructor" is one element of the text
CallNames == {<<"a">>, <<"b">>, <<"constructor">>}

CallModels == UNION {[1..n -> CallNames] : n \in 0..MaxCallModels}

Digit(i) == <<"1", "2", "3", "4", "5", "6", "7", "8", "9">>[i]

\* n snippets stored under key k, each with its own title and snippet text
StoredSnippets(k, n) ==
    [i \in 1..n |-> [title |-> <<"t">> \o k \o <<Digit(i)>>,
                     snippet |-> <<"s">> \o k \o <<Digit(i)>>]]

CallKeys == {<<"a">>, <<"b">>, <<"c">>}

\* searchData objects: each key absent (-1) or holding 0, 1, 4 or more
\* snippets
CallSearchDatas ==
    {[k \in {x \in CallKeys : n[x] >= 0} |-> StoredSnippets(k, n[k])] :
        n \in {f \in [CallKeys -> {-1, 0, 1, DigestItems, MaxSnippets}] :
                  /\ f[<<"b">>] \in {-1, 0, MaxSnippets}
                  /\ f[<<"c">>] \in {-1, MaxSnippets}}}

\* a prompt file: missing, blank, or a text with spaces around it
FileChoices(c) == {NoFile, File(<<" ">>), File(<<" ", c, " ">>)}

CallFiles ==
    {[appliance |-> fa, beauty |-> fb, gift |-> fg, discussion |-> fd] :
        fa \in FileChoices("A"), fb \in FileChoices("B"),
        fg \in FileChoices("G"), fd \in FileChoices("D")}

Calls ==
    {[NoCall EXCEPT !.fn = "buildPrompt", !.title = <<"t">>, !.models = ms,
                    !.searchDigest = d, !.hasModels = h, !.writingStyle = w,
                    !.contentType = c] :
        ms \in {<<>>, <<<<"a">>>>, <<<<"a">>, <<"b">>>>},
        d \in {<<>>, <<"d">>}, h \in BOOLEAN, w \in WritingStyles,
        c \in CallContentTypes}
    \cup {[NoCall EXCEPT !.fn = "formatSearchData", !.models = ms,
                         !.searchData = sd] :
            ms \in CallModels, sd \in CallSearchDatas}
    \cup {[NoCall EXCEPT !.fn = "selectContentPrompt", !.files = f,
                         !.contentType = c] :
            f \in CallFiles, c \in CallContentTypes}
    \cup {[NoCall EXCEPT !.fn = "selectStyleHint", !.writingStyle = w] :
            w \in WritingStyles}

Returned(text) == [done |-> TRUE, threw |-> FALSE, text |-> text]

Threw == [done |-> TRUE, threw |-> TRUE, text |-> <<>>]

CallBuildPrompt ==
    /\ call.fn = "buildPrompt" /\ ~out.done
    /\ out' = Returned(BuildPrompt(call.title, call.models, call.searchDigest,
                                   call.hasModels, call.writingStyle,
                                   call.contentType))
    /\ UNCHANGED call
    /\ UNCHANGED xpvars

CallFormatSearchData ==
    /\ call.fn = "formatSearchData" /\ ~out.done
    /\ out' = IF DigestThrows(call.models, call.searchData) THEN Threw
               ELSE Returned(FormatSearchData(call.models, call.searchData))
    /\ UNCHANGED call
    /\ UNCHANGED xpvars

CallSelectContentPrompt ==
    /\ call.fn = "selectContentPrompt" /\ ~out.done
    /\ out' = Returned(SelectContentPrompt(LoadAssets(call.files),
                                           call.contentType))
    /\ UNCHANGED call
    /\ UNCHANGED xpvars

CallSelectStyleHint ==
    /\ call.fn = "selectStyleHint" /\ ~out.done
    /\ out' = Returned(SelectStyleHint(call.writingStyle))
    /\ UNCHANGED call
    /\ UNCHANGED xpvars

----------------------------------------------------------------------------
(* Two runs of the generate handler on the same request body and the same  *)
(* environment, against a completion stub whose answer is a function of    *)
(* the prompts it receives.  The guidance files are read once, when the    *)
(* module is loaded, and are the same for both runs; each run reads the    *)
(* clock for itself.  pickRandomFramework (lines 323-326), the one use of  *)
(* Math.random, is called from nowhere.                                    *)

Runs == {1, 2}

\* the stubs: the article is the user prompt, the system prompt, or empty
Stubs == {"echo user", "echo system", "silent"}

StubBody(stub, prompts) ==
    [NoBodyIn EXCEPT
        !.t = "object",
        !.content = IF stub = "echo user" THEN JStr(prompts.user)
                    ELSE IF stub = "echo system" THEN JStr(prompts.system)
                    ELSE JStr(<<>>)]

\* request bodies of the runs: up to two names
RunBodies ==
    {Body("object", ti, [t |-> "array", v |-> m], sd, ct, sp) :
        ti \in {JStr(<<" ">>), JStr(<<" ", "t", " ">>)},
        m \in UNION {[1..n -> {JStr(<<" ", "a">>), JStr(<<"b">>)}] :
                        n \in 0..2},
        sd \in SearchDatas, ct \in ContentTypes, sp \in StylePreferences}

NoGiven ==
    [body |-> NoBody, env |-> [AI_API_KEY |-> JUndef, OPENAI_API_KEY |-> JUndef],
     stub |-> "none"]

Givens ==
    {[body |-> b, env |-> e, stub |-> st] :
        b \in RunBodies,
        e \in {[AI_API_KEY |-> JUndef, OPENAI_API_KEY |-> JUndef],
               [AI_API_KEY |-> JStr(<<"k">>), OPENAI_API_KEY |-> JUndef]},
        st \in Stubs}

NoRun == [pc |-> "idle", sent |-> NoSent, resp |-> NoResponse]

\* run i handles the request up to its first response or to the fetch
RunStart(i) ==
    /\ runs[i].pc = "idle"
    /\ runs' = [runs EXCEPT
                  ![i] = IF BeforeFetch(given.body, given.env) = NoResponse
                         THEN [pc |-> "awaitFetch",
                               sent |-> SentOf(given.body),
                               resp |-> NoResponse]
                         ELSE [pc |-> "done", sent |-> NoSent,
                               resp |-> BeforeFetch(given.body, given.env)]]
    /\ UNCHANGED given
    /\ UNCHANGED xdvars

\* the stub answers run i with 200 and the handler builds its response
StubAnswers(i) ==
    /\ runs[i].pc = "awaitFetch"
    /\ \E now \in Times :
         runs' = [runs EXCEPT
                    ![i].pc = "done",
                    ![i].resp = AfterJson(given.body,
                                          StubBody(given.stub, runs[i].sent),
                                          now)]
    /\ UNCHANGED given
    /\ UNCHANGED xdvars

----------------------------------------------------------------------------
(* The form page, src/app/page.tsx.  An id `${baseId}-${n}` is the number  *)
(* n.  A search result is the name it was searched for.  The page is       *)
(* followed until it sends a generate request; when that request fails the *)
(* page is as it was before the request.                                   *)

\* page.tsx line 29
MAX_MODELS == 3
\* most /api/search requests of the page in flight at once
MaxInflight == 1

\* what the user types into a name field
FormNames == {<<>>, <<"a">>, <<"b", " ">>}

\* what the user types into the title field
FormTitles == {<<>>, <<"t">>}

\* lines 51-53 and 140: { id: `${baseId}-0`, name: "", results: [], ... }
NewEntry(n) == [id |-> n, name |-> <<>>, results |-> <<>>, isLoading |-> FALSE]

FreshForm == [title |-> <<>>, models |-> <<NewEntry(0)>>]

NoPayload ==
    [sent |-> FALSE, title |-> <<>>, models |-> <<>>, searchData |-> <<>>]

\* { ...m, ...patch }
Spread(m, patch) ==
    [k \in DOMAIN m |-> IF k \in DOMAIN patch THEN patch[k] ELSE m[k]]

\* prev.map((m) => (m.id === id ? { ...m, ...patch } : m))
MapById(ms, id, patch) ==
    [i \in 1..Len(ms) |-> IF ms[i].id = id THEN Spread(ms[i], patch) ELSE ms[i]]

\* models.find((m) => m.id === modelId)
FindById(ms, id) == ms[CHOOSE i \in 1..Len(ms) :
                         /\ ms[i].id = id
                         /\ \A j \in 1..(i - 1) : ms[j].id # id]

\* line 56: models.filter((m) => m.name.trim())
ActiveModels(ms) == SelectSeq(ms, LAMBDA m : Len(Trim(m.name)) > 0)

\* setTitle(e.target.value)
SetTitle ==
    /\ ~payload.sent
    /\ \E v \in FormTitles :
         /\ v # form.title
         /\ form' = [form EXCEPT !.title = v]
    /\ UNCHANGED <<inflight, payload>>
    /\ UNCHANGED xfvars

\* lines 58-64: addModel; with MAX_MODELS entries it only sets the error text
AddModel ==
    /\ ~payload.sent
    /\ Len(form.models) < MAX_MODELS
    /\ form' = [form EXCEPT !.models = Append(@, NewEntry(Len(form.models)))]
    /\ UNCHANGED <<inflight, payload>>
    /\ UNCHANGED xfvars

\* lines 66-68: removeModel, on the button of the entry at position p; the
\* button is rendered when there is more than one entry (line 335)
RemoveModel(p) ==
    /\ ~payload.sent
    /\ Len(form.models) > 1
    /\ form' = [form EXCEPT
                  !.models = SelectSeq(@, LAMBDA m : m.id # form.models[p].id)]
    /\ UNCHANGED <<inflight, payload>>
    /\ UNCHANGED xfvars

\* lines 71-73: updateModelName, from the field of the entry at position p
UpdateModelName(p) ==
    /\ ~payload.sent
    /\ \E v \in FormNames :
         /\ v # form.models[p].name
         /\ form' = [form EXCEPT
                       !.models = MapById(@, form.models[p].id,
                                          [name |-> v])]
    /\ UNCHANGED <<inflight, payload>>
    /\ UNCHANGED xfvars

\* lines 75-88: handleFetchSearch up to the fetch, on the button of the entry
\* at position p (disabled while the entry is loading, line 363); with a blank
\* name it only sets the error text
HandleFetchSearch(p) ==
    /\ ~payload.sent
    /\ ~form.models[p].isLoading
    /\ Cardinality(inflight) < MaxInflight
    /\ LET modelId == form.models[p].id
           modelName == Trim(FindById(form.models, modelId).name)
       IN /\ Len(modelName) > 0
          /\ [id |-> modelId, name |-> modelName] \notin inflight
          /\ form' = [form EXCEPT
                        !.models = MapById(@, modelId, [isLoading |-> TRUE])]
          /\ inflight' = inflight \cup {[id |-> modelId, name |-> modelName]}
    /\ UNCHANGED payload
    /\ UNCHANGED xfvars

\* lines 123-125: the search answered 200 with results for the name it was
\* asked for
SearchSucceeds(r) ==
    /\ ~payload.sent
    /\ r \in inflight
    /\ inflight' = inflight \ {r}
    /\ form' = [form EXCEPT
                  !.models = MapById(@, r.id,
                                     [results |-> <<r.name>>,
                                      isLoading |-> FALSE])]
    /\ UNCHANGED payload
    /\ UNCHANGED xfvars

\* lines 126-132: the search failed
SearchFails(r) ==
    /\ ~payload.sent
    /\ r \in inflight
    /\ inflight' = inflight \ {r}
    /\ form' = [form EXCEPT
                  !.models = MapById(@, r.id,
                                     [results |-> <<>>, isLoading |-> FALSE])]
    /\ UNCHANGED payload
    /\ UNCHANGED xfvars

\* lines 137-142: handleReset
HandleReset ==
    /\ ~payload.sent
    /\ form # FreshForm
    /\ form' = FreshForm
    /\ UNCHANGED <<inflight, payload>>
    /\ UNCHANGED xfvars

\* lines 228-231: the generate request failed; the page stays
GenerateFails ==
    /\ payload.sent
    /\ payload' = NoPayload
    /\ UNCHANGED <<form, inflight>>
    /\ UNCHANGED xfvars

\* the results of the last entry of ms whose trimmed name is n
LastResults(ms, n) ==
    ms[CHOOSE i \in 1..Len(ms) :
          /\ Trim(ms[i].name) = n
          /\ \A j \in (i + 1)..Len(ms) : Trim(ms[j].name) # n].results

\* lines 162-176: the payload built by handleSubmit
PayloadOf(f) ==
    LET active == ActiveModels(f.models)
    IN [sent |-> TRUE,
        title |-> Trim(f.title),
        models |-> [i \in 1..Len(active) |-> Trim(active[i].name)],
        searchData |->
            [n \in {Trim(active[i].name) : i \in 1..Len(active)} |->
                LastResults(active, n)]]

\* lines 144-190: handleSubmit up to the fetch; with a blank title, or an
\* active entry without results, it only sets the error text
HandleSubmit ==
    /\ ~payload.sent
    /\ Len(Trim(form.title)) > 0
    /\ \A i \in 1..Len(form.models) :
         Len(Trim(form.models[i].name)) > 0 =>
            Len(form.models[i].results) > 0
    /\ payload' = PayloadOf(form)
    /\ UNCHANGED <<form, inflight>>
    /\ UNCHANGED xfvars

----------------------------------------------------------------------------
(* The result page, src/app/result/page.tsx.  As on the form page a search *)
(* result is the name it was searched for.                                 *)

\* most clicks on 'regenerate' that are followed
MaxRegenerates == 2

\* ArticleMetadata: searchData is an optional key
NoArticleMeta ==
    [title |-> <<>>, models |-> <<>>, hasSearchData |-> FALSE,
     searchData |-> <<>>, contentType |-> JUndef, stylePreference |-> JUndef,
     generatedAt |-> 0]

NoData == [article |-> <<>>, metadata |-> NoArticleMeta]

\* the body of a /api/generate request of a page
NoRequest ==
    [title |-> <<>>, models |-> <<>>, searchData |-> <<>>,
     contentType |-> JUndef, stylePreference |-> JUndef]

\* generate/route.ts lines 163-173: the 200 body for a request and the text
\* of the completion; its metadata has no searchData key
ServerData(request, text, now) ==
    [article |-> text,
     metadata |->
        [NoArticleMeta EXCEPT
            !.title = Trim(request.title),
            !.models = NormalizeModels(
                [t |-> "array",
                 v |-> [i \in 1..Len(request.models) |->
                           JStr(request.models[i])]]),
            !.contentType = OrElse(request.contentType, JStr(<<"discussion">>)),
            !.stylePreference = OrElse(request.stylePreference,
                                       JStr(<<"random">>)),
            !.generatedAt = now]]

\* page.tsx lines 222-229: dataToSave
DataToSave(data, searchData) ==
    [data EXCEPT !.metadata.hasSearchData = TRUE,
                 !.metadata.searchData = searchData]

\* the payloads handleSubmit sends: no names and searchData {}, or names and
\* results under each of them
FirstPayloads ==
    {[NoRequest EXCEPT !.title = <<"t">>, !.models = ms,
                       !.searchData = [n \in {ms[i] : i \in 1..Len(ms)} |-> <<n>>],
                       !.contentType = ct,
                       !.stylePreference = JStr(<<"random">>)] :
        ms \in {<<>>, <<<<"a">>>>, <<<<"a">>, <<"b">>>>},
        ct \in {JStr(<<"discussion">>), JStr(<<"beauty">>)}}

\* the texts a completion gives
ArticleTexts == {<<"x">>, <<"y">>}

\* the texts the user leaves in the editor
EditorTexts == {<<"x">>, <<"e">>}

\* lines 43-49: the state of the page before its effect has run
NoView ==
    [mounted |-> FALSE, article |-> <<>>, metadata |-> NoArticleMeta,
     isEditing |-> FALSE, editedContent |-> <<>>, isRegenerating |-> FALSE]

NoRegen ==
    [pc |-> "idle", started |-> 0, todo |-> <<>>, found |-> <<>>,
     request |-> NoRequest, searches |-> 0, generates |-> 0]

NoExport == [how |-> "none", text |-> <<>>, edited |-> <<>>]

\* lines 51-63: the effect that loads the stored article
Mount ==
    /\ ~view.mounted
    /\ view' = [view EXCEPT !.mounted = TRUE, !.article = stored.article,
                            !.editedContent = stored.article,
                            !.metadata = stored.metadata]
    /\ UNCHANGED <<saved, stored, regen, exported>>
    /\ UNCHANGED xrvars

\* line 96: metadata.searchData || {}
SearchDataOf(metadata) ==
    IF metadata.hasSearchData THEN metadata.searchData ELSE <<>>

\* lines 143-156: the /api/generate request is issued
IssueGenerate(r, searchData) ==
    [r EXCEPT !.pc = "generating", !.generates = @ + 1,
              !.request.searchData = searchData]

\* lines 94-156: handleRegenerate on the page state v up to its first await;
\* r holds the title, models, contentType and stylePreference it has read
RegenerateFrom(v, r) ==
    IF Len(v.metadata.title) = 0 \/ Len(v.metadata.models) = 0 THEN r
    ELSE IF DOMAIN SearchDataOf(v.metadata) = {}
    THEN [r EXCEPT !.pc = "searching", !.todo = v.metadata.models,
                   !.found = <<>>, !.searches = @ + 1]
    ELSE IssueGenerate(r, SearchDataOf(v.metadata))

\* lines 86-104: the click on 'regenerate' (disabled while regenerating)
HandleRegenerate ==
    /\ view.mounted /\ ~view.isRegenerating
    /\ regen.started < MaxRegenerates
    /\ regen' = RegenerateFrom(view,
                    [regen EXCEPT
                        !.started = @ + 1,
                        !.request = [NoRequest EXCEPT
                            !.title = view.metadata.title,
                            !.models = view.metadata.models,
                            !.contentType =
                                OrElse(view.metadata.contentType,
                                       JStr(<<"discussion">>)),
                            !.stylePreference =
                                OrElse(view.metadata.stylePreference,
                                       JStr(<<"random">>))]])
    /\ view' = [view EXCEPT !.isRegenerating = regen'.pc # "idle"]
    /\ UNCHANGED <<saved, stored, exported>>
    /\ UNCHANGED xrvars

\* newSearchData[model] = results
WithEntry(found, model, results) ==
    [n \in DOMAIN found \cup {model} |->
        IF n = model THEN results ELSE found[n]]

\* lines 113-141: the search for the next model settles, with results or
\* without; after the last one the generate request is issued when some model
\* has results
RegenSearchSettles ==
    /\ regen.pc = "searching"
    /\ \E rs \in {<<Head(regen.todo)>>, <<>>} :
         LET found == WithEntry(regen.found, Head(regen.todo), rs)
             todo == Tail(regen.todo)
         IN /\ regen' =
                 IF Len(todo) > 0
                 THEN [regen EXCEPT !.todo = todo, !.found = found,
                                    !.searches = @ + 1]
                 ELSE IF \A n \in DOMAIN found : Len(found[n]) = 0
                 THEN [regen EXCEPT !.pc = "idle", !.todo = todo,
                                    !.found = found]
                 ELSE IssueGenerate([regen EXCEPT !.todo = todo,
                                                  !.found = found], found)
            /\ view' = [view EXCEPT !.isRegenerating = regen'.pc # "idle"]
    /\ UNCHANGED <<saved, stored, exported>>
    /\ UNCHANGED xrvars

\* lines 162-194: /api/generate answered 200 with an article
RegenSucceeds ==
    /\ regen.pc = "generating"
    /\ \E text \in ArticleTexts, now \in Times :
         /\ view' = [view EXCEPT
                       !.article = text, !.editedContent = text,
                       !.isEditing = FALSE, !.isRegenerating = FALSE,
                       !.metadata = ServerData(regen.request, text, now).metadata]
         /\ stored' = ServerData(regen.request, text, now)
    /\ regen' = [regen EXCEPT !.pc = "idle"]
    /\ UNCHANGED <<saved, exported>>
    /\ UNCHANGED xrvars

\* lines 157-188 and 195-201: the request failed or gave no article
RegenFails ==
    /\ regen.pc = "generating"
    /\ regen' = [regen EXCEPT !.pc = "idle"]
    /\ view' = [view EXCEPT !.isRegenerating = FALSE]
    /\ UNCHANGED <<saved, stored, exported>>
    /\ UNCHANGED xrvars

\* line 251: the 'edit' / 'done editing' button
ToggleEdit ==
    /\ view.mounted
    /\ view' = [view EXCEPT !.isEditing = ~@]
    /\ UNCHANGED <<saved, stored, regen, exported>>
    /\ UNCHANGED xrvars

\* line 284: the user types in the editor
TypeInEditor ==
    /\ view.mounted /\ view.isEditing
    /\ \E v \in EditorTexts :
         /\ v # view.editedContent
         /\ view' = [view EXCEPT !.editedContent = v]
    /\ UNCHANGED <<saved, stored, regen, exported>>
    /\ UNCHANGED xrvars

\* line 288: 'save changes'
SaveChanges ==
    /\ view.mounted /\ view.isEditing
    /\ view' = [view EXCEPT !.isEditing = FALSE]
    /\ UNCHANGED <<saved, stored, regen, exported>>
    /\ UNCHANGED xrvars

\* lines 291-295: 'cancel edit'
CancelEdit ==
    /\ view.mounted /\ view.isEditing
    /\ view' = [view EXCEPT !.editedContent = view.article,
                            !.isEditing = FALSE]
    /\ UNCHANGED <<saved, stored, regen, exported>>
    /\ UNCHANGED xrvars

\* lines 67 and 76: isEditing ? editedContent : article
ExportedText(v) == IF v.isEditing THEN v.editedContent ELSE v.article

\* lines 65-73: handleCopy
HandleCopy ==
    /\ view.mounted
    /\ exported' = [how |-> "copy", text |-> ExportedText(view),
                    edited |-> view.editedContent]
    /\ UNCHANGED <<saved, stored, view, regen>>
    /\ UNCHANGED xrvars

\* lines 75-84: handleDownload
HandleDownload ==
    /\ view.mounted
    /\ exported' = [how |-> "download", text |-> ExportedText(view),
                    edited |-> view.editedContent]
    /\ UNCHANGED <<saved, stored, view, regen>>
    /\ UNCHANGED xrvars

\* lines 280-310: what the page shows as the article
Displayed(v) == IF v.isEditing THEN v.editedContent ELSE v.article

----------------------------------------------------------------------------
(* The parts of the program as systems *)

\* no generate request is being handled
GenIdle ==
    /\ env = [AI_API_KEY |-> JUndef, OPENAI_API_KEY |-> JUndef]
    /\ pc = "idle"
    /\ req = NoBody
    /\ timer = "unset"
    /\ fetchCount = 0
    /\ fetchErr = NoExc
    /\ upstream = NoUpstream
    /\ bodyIn = NoBodyIn
    /\ resp = NoResponse
    /\ sent = NoSent

\* no search request is being handled
SearchIdle ==
    /\ skey = JUndef
    /\ spc = "idle"
    /\ sreq = NoSearchBody
    /\ provider = NoOutcome
    /\ calls = 0
    /\ sresp = NoSearchResponse

\* no prompt function is being called
PromptIdle == call = NoCall /\ out = NoOut

\* no pair of runs is under way
RunsIdle == given = NoGiven /\ runs = [i \in Runs |-> NoRun]

\* the form page as mounted
FormIdle == form = FreshForm /\ inflight = {} /\ payload = NoPayload

\* no result page is open
ResultIdle ==
    /\ saved = NoData /\ stored = NoData /\ view = NoView
    /\ regen = NoRegen /\ exported = NoExport

\* the result page opens on what the form page saved: the 200 body of
\* /api/generate for its payload, with the payload's searchData added
ResultInit ==
    /\ GenIdle
    /\ SearchIdle
    /\ PromptIdle
    /\ RunsIdle
    /\ FormIdle
    /\ saved \in {DataToSave(ServerData(pl, <<"x">>, 1), pl.searchData) :
                     pl \in FirstPayloads}
    /\ stored = saved
    /\ view = NoView
    /\ regen = NoRegen
    /\ exported = NoExport

ResultNext ==
    \/ Mount
    \/ HandleRegenerate
    \/ RegenSearchSettles
    \/ RegenSucceeds
    \/ RegenFails
    \/ ToggleEdit
    \/ TypeInEditor
    \/ SaveChanges
    \/ CancelEdit
    \/ HandleCopy
    \/ HandleDownload

ResultSpec == ResultInit /\ [][ResultNext]_vars

FormInit ==
    /\ GenIdle
    /\ SearchIdle
    /\ PromptIdle
    /\ RunsIdle
    /\ form = FreshForm
    /\ inflight = {}
    /\ payload = NoPayload
    /\ ResultIdle

FormNext ==
    \/ SetTitle
    \/ AddModel
    \/ \E p \in 1..Len(form.models) : RemoveModel(p)
    \/ \E p \in 1..Len(form.models) : UpdateModelName(p)
    \/ \E p \in 1..Len(form.models) : HandleFetchSearch(p)
    \/ \E r \in inflight : SearchSucceeds(r)
    \/ \E r \in inflight : SearchFails(r)
    \/ HandleReset
    \/ HandleSubmit
    \/ GenerateFails

FormSpec == FormInit /\ [][FormNext]_vars

RunsInit ==
    /\ GenIdle
    /\ SearchIdle
    /\ PromptIdle
    /\ given \in Givens
    /\ runs = [i \in Runs |-> NoRun]
    /\ FormIdle
    /\ ResultIdle

RunsNext ==
    \/ \E i \in Runs : RunStart(i)
    \/ \E i \in Runs : StubAnswers(i)

RunsSpec == RunsInit /\ [][RunsNext]_vars

SearchInit ==
    /\ GenIdle
    /\ skey \in {JUndef, JStr(<<"k">>)}
    /\ spc = "idle"
    /\ sreq = NoSearchBody
    /\ provider = NoOutcome
    /\ calls = 0
    /\ sresp = NoSearchResponse
    /\ PromptIdle
    /\ RunsIdle
    /\ FormIdle
    /\ ResultIdle

SearchNext == SearchStart \/ ProviderAnswers

SearchSpec == SearchInit /\ [][SearchNext]_vars

PromptInit ==
    /\ GenIdle
    /\ SearchIdle
    /\ call \in Calls
    /\ out = NoOut
    /\ RunsIdle
    /\ FormIdle
    /\ ResultIdle

PromptNext ==
    \/ CallBuildPrompt
    \/ CallFormatSearchData
    \/ CallSelectContentPrompt
    \/ CallSelectStyleHint

PromptSpec == PromptInit /\ [][PromptNext]_vars

Init ==
    /\ env \in Envs
    /\ pc = "idle"
    /\ req = NoBody
    /\ timer = "unset"
    /\ fetchCount = 0
    /\ fetchErr = NoExc
    /\ upstream = NoUpstream
    /\ bodyIn = NoBodyIn
    /\ resp = NoResponse
    /\ sent = NoSent
    /\ SearchIdle
    /\ PromptIdle
    /\ RunsIdle
    /\ FormIdle
    /\ ResultIdle

Next ==
    \/ GenStart
    \/ FetchResolves
    \/ FetchRejects
    \/ TimerFires
    \/ JsonArrives
    \/ TextArrives

Spec == Init /\ [][Next]_vars

\* The timer is a scheduled callback and fires once its time has come; the
\* completion endpoint is under no obligation to answer or to finish a body.
LiveSpec == Init /\ [][Next]_vars /\ WF_vars(TimerFires)

----------------------------------------------------------------------------
(* Properties of POST /api/generate.  The vocabulary below describes a     *)
(* request in the terms of the specification, independently of the         *)
(* operators that model the handler.                                       *)

\* the text has a character that is not a space: it is non-empty after trimming
HasInk(s) == \E i \in 1..Len(s) : s[i] # " "

\* t is s without its leading and trailing spaces
IsTrimOf(t, s) ==
    /\ Len(t) > 0 => (t[1] # " " /\ t[Len(t)] # " ")
    /\ \E i \in 0..Len(s) : \E j \in i..Len(s) :
         /\ t = SubSeq(s, i + 1, j)
         /\ \A k \in 1..i : s[k] = " "
         /\ \A k \in (j + 1)..Len(s) : s[k] = " "

\* t is the beginning of s
IsPrefix(t, s) == Len(t) <= Len(s) /\ \A i \in 1..Len(t) : t[i] = s[i]

\* the body is a JSON object whose title is absent or blank
TitleBlank ==
    /\ req.t = "object"
    /\ \/ req.title.t = "undefined"
       \/ req.title.t = "string" /\ ~HasInk(req.title.v)

\* the body is a JSON object whose title is a non-blank string
TitleGiven ==
    req.t = "object" /\ req.title.t = "string" /\ HasInk(req.title.v)

\* models is absent or an array of strings
ModelsTyped ==
    \/ req.models.t = "undefined"
    \/ /\ req.models.t = "array"
       /\ \A i \in 1..Len(req.models.v) : req.models.v[i].t = "string"

\* the normalized models list is non-empty
NamesGiven ==
    /\ ModelsTyped
    /\ req.models.t = "array"
    /\ \E i \in 1..Len(req.models.v) : HasInk(req.models.v[i].v)

\* searchData is absent or has no keys
SearchDataEmpty ==
    req.searchData.t = "undefined" \/ DOMAIN req.searchData.v = {}

\* AI_API_KEY or OPENAI_API_KEY is configured
KeyConfigured ==
    \/ env.AI_API_KEY.t = "string" /\ Len(env.AI_API_KEY.v) > 0
    \/ env.OPENAI_API_KEY.t = "string" /\ Len(env.OPENAI_API_KEY.v) > 0

\* the positions of the request's names that are non-blank, in request order
KeptIndexes(xs) ==
    SelectSeq([i \in 1..Len(xs) |-> i], LAMBDA i : HasInk(xs[i].v))

\* ms holds the first three non-blank names of xs, trimmed, in request order
IsNormalizedOf(ms, xs) ==
    /\ Len(ms) = (IF Len(KeptIndexes(xs)) < 3 THEN Len(KeptIndexes(xs)) ELSE 3)
    /\ \A j \in 1..Len(ms) : IsTrimOf(ms[j], xs[KeptIndexes(xs)[j]].v)

\* C1 (as claimed): a request whose title is absent or blank is answered 400
\* with an {error} body, whatever its models, searchData, contentType,
\* stylePreference and the credential configuration.
C1_BlankTitleIs400 ==
    (pc = "done" /\ TitleBlank) => (resp.status = 400 /\ resp.hasError)

\* C2: with a non-blank title and a non-empty normalized models list, absent
\* or key-less searchData is answered 400 and no completion request is issued;
\* with an empty normalized models list such searchData is accepted: the
\* answer is not 400 and, with a credential, the completion request is issued.
C2_SearchDataRequired ==
    (pc # "idle" /\ TitleGiven /\ ModelsTyped /\ SearchDataEmpty) =>
        IF NamesGiven
        THEN pc = "done" /\ resp.status = 400 /\ resp.hasError /\ fetchCount = 0
        ELSE resp.status # 400 /\ (KeyConfigured => fetchCount = 1)

C2_Witness ==
    /\ pc = "done" /\ TitleGiven /\ NamesGiven
    /\ req.searchData.t = "object" /\ DOMAIN req.searchData.v = {}
    /\ resp.status = 400 /\ resp.error = MsgMissingSearchData

\* the request fails the title check or the search-data check
FailsValidation ==
    TitleBlank \/ (TitleGiven /\ NamesGiven /\ SearchDataEmpty)

\* the request passes both checks
PassesValidation ==
    TitleGiven /\ ModelsTyped /\ ~(NamesGiven /\ SearchDataEmpty)

\* C3 (as claimed): validation comes before the credential check, which comes
\* before the network call: a request that fails validation is answered 400
\* even without a credential, and a request that passes validation without a
\* credential is answered 500 'credential not configured' with no outbound
\* request.
C3_ChecksOrdered ==
    /\ (pc = "done" /\ FailsValidation) => resp.status = 400
    /\ (pc # "idle" /\ PassesValidation /\ ~KeyConfigured) =>
          /\ pc = "done"
          /\ resp.status = 500
          /\ resp.error = MsgNoCredential
          /\ fetchCount = 0

\* the completion endpoint answered 2xx with a non-empty choices[0].message.content
CompletionGaveText ==
    /\ upstream.status \in 200..299
    /\ bodyIn.t = "object"
    /\ bodyIn.content.t = "string"
    /\ Len(bodyIn.content.v) > 0

\* C4: the answer is 200 exactly when validation and the credential check pass
\* and the completion endpoint gave a non-empty text; the 200 body then has
\* success = true, the text unchanged as article, and metadata with the
\* trimmed title, the first three non-blank trimmed names in request order,
\* contentType defaulting to 'discussion' and stylePreference to 'random'.
C4_SuccessResponse ==
    pc = "done" =>
        /\ (resp.status = 200) <=>
              (PassesValidation /\ KeyConfigured /\ CompletionGaveText)
        /\ resp.status = 200 =>
              /\ resp.success /\ ~resp.hasError
              /\ resp.hasArticle /\ resp.article = bodyIn.content
              /\ resp.hasMetadata
              /\ IsTrimOf(resp.metadata.title, req.title.v)
              /\ IsNormalizedOf(resp.metadata.models,
                                IF req.models.t = "array" THEN req.models.v
                                ELSE <<>>)
              /\ resp.metadata.contentType =
                    (IF req.contentType.t = "string" /\ Len(req.contentType.v) > 0
                     THEN req.contentType ELSE JStr(<<"discussion">>))
              /\ resp.metadata.stylePreference =
                    (IF req.stylePreference.t = "string"
                        /\ Len(req.stylePreference.v) > 0
                     THEN req.stylePreference ELSE JStr(<<"random">>))

C4_Witness ==
    /\ pc = "done" /\ resp.status = 200
    /\ req.models.t = "array" /\ Len(KeptIndexes(req.models.v)) = 4
    /\ Len(resp.metadata.models) = 3
    /\ req.contentType.t = "undefined"
    /\ resp.article = JStr(<<"x", " ">>)

\* the fetch failed at the transport level: the runtime's connection failure
ConnectionFailure ==
    /\ fetchErr.isError
    /\ fetchErr.name = "TypeError"
    /\ fetchErr.message.words \cap {"fetch failed", "Failed to fetch"} # {}

\* C5: each completion failure is answered 500 with its own message: the
\* timeout message when the timer fired, the cannot-reach message for a
\* connection failure, the upstream-error message with the status and at
\* most the first 200 characters of the upstream body for a non-2xx answer,
\* and the empty-generation message for a 2xx answer without text.
C5_FailureMessages ==
    pc = "done" =>
        /\ timer = "fired" =>
              (resp.status = 500 /\ resp.error.kind = "request timed out (120 s)")
        /\ ConnectionFailure =>
              (resp.status = 500
               /\ resp.error.kind = "cannot connect to API server")
        /\ (upstream.status # 0 /\ upstream.status \notin 200..299
            /\ bodyIn.t = "text") =>
              /\ resp.status = 500
              /\ resp.error.kind = "API call failed"
              /\ resp.error.status = upstream.status
              /\ Len(resp.error.text) <= 200
              /\ IsPrefix(resp.error.text, bodyIn.text)
              /\ Len(bodyIn.text) <= 200 => resp.error.text = bodyIn.text
        /\ (upstream.status \in 200..299 /\ bodyIn.t = "object"
            /\ ~CompletionGaveText) =>
              (resp.status = 500
               /\ resp.error.kind = "generated content is empty")

C5_Witness ==
    /\ pc = "done" /\ timer = "fired" /\ fetchErr.name = "AbortError"
    /\ resp.status = 500 /\ resp.error = MsgTimeout

\* C6: the handler always returns a response with status 200, 400 or 500,
\* never an unhandled exception; only a 200 carries an article, and every
\* other body is {error} alone.
C6_AlwaysAResponse ==
    /\ pc = "done" <=> resp # NoResponse
    /\ pc = "done" =>
          /\ resp.status \in {200, 400, 500}
          /\ resp.hasArticle => resp.status = 200
          /\ resp.status # 200 =>
                /\ resp.hasError
                /\ ~resp.hasArticle /\ ~resp.hasMetadata /\ ~resp.success

C6_Witness ==
    /\ pc = "done" /\ req.t = "object" /\ TitleGiven /\ ~ModelsTyped
    /\ resp.status = 500 /\ resp.hasError /\ ~resp.hasArticle

\* C7: at most one completion request is issued per request and none is
\* issued again after a failure; none at all is issued when the answer is
\* 400 or the 500 of a missing credential.
C7_AtMostOneFetch ==
    /\ fetchCount <= 1
    /\ (pc = "done" /\ (resp.status = 400 \/ resp.error = MsgNoCredential)) =>
          fetchCount = 0
    /\ (pc = "done" /\ fetchCount = 0) =>
          (timer = "unset" /\ upstream = NoUpstream /\ fetchErr = NoExc)

C7_Witness ==
    /\ pc = "done" /\ fetchCount = 1
    /\ fetchErr.isError /\ resp.status = 500

\* C8 (as claimed): once the completion request is issued, the handler
\* eventually returns a response, given only that the timer fires in time.
C8_IssuedRequestReturns == (fetchCount = 1) ~> (pc = "done")

----------------------------------------------------------------------------
(* Properties of POST /api/search *)

\* the body is a JSON object whose model is absent or a string
SearchBodyTyped ==
    sreq.t = "object" /\ sreq.model.t \in {"undefined", "string"}

\* the model name is absent or blank
SearchModelBlank ==
    sreq.model.t = "undefined" \/ ~HasInk(sreq.model.v)

\* the raw result has a non-empty title, snippet and url
Complete(item) ==
    /\ item.title.t = "string" /\ Len(item.title.v) > 0
    /\ item.snippet.t = "string" /\ Len(item.snippet.v) > 0
    /\ item.url.t = "string" /\ Len(item.url.v) > 0

\* the provider answered ok, without an error field, with at least one
\* complete organic result
ProviderUsable ==
    /\ provider.t = "json"
    /\ ~provider.error.present
    /\ \E i \in 1..Len(provider.organic) : Complete(provider.organic[i])

\* C9: the answer of the search handler is that of the first applicable case:
\* 400 for an absent or blank model, 500 without a search credential (and no
\* provider request), 502 for the no-results outcome or an empty normalized
\* list, else 200 with the trimmed name and the results; so every 200 holds
\* at least one result.
C9_SearchCases ==
    /\ (spc = "done" /\ SearchBodyTyped) =>
          IF SearchModelBlank
          THEN sresp.status = 400 /\ sresp.hasError /\ calls = 0
          ELSE IF ~Truthy(skey)
          THEN sresp.status = 500 /\ sresp.error = MsgNoSearchKey /\ calls = 0
          ELSE IF ~ProviderUsable
          THEN sresp.status = 502 /\ sresp.hasError /\ ~sresp.hasResults
          ELSE /\ sresp.status = 200
               /\ sresp.hasModel /\ IsTrimOf(sresp.model, sreq.model.v)
               /\ sresp.hasResults
    /\ (spc = "done" /\ sresp.status = 200) => Len(sresp.results) >= 1
    /\ calls <= 1

C9_Witness ==
    /\ spc = "done" /\ sresp.status = 502
    /\ provider.t = "json" /\ ~provider.error.present
    /\ Len(provider.organic) = 2
    /\ \A i \in 1..Len(provider.organic) : ~Complete(provider.organic[i])

\* the provider outcome is a transport failure, a non-2xx status, an answer
\* with an error field, or an empty or absent organic result list
ProviderFailed ==
    \/ provider.t \in {"transport", "notok", "notok unreadable"}
    \/ provider.t = "json" /\ provider.error.present
    \/ provider.t = "json" /\ Len(provider.organic) = 0

----------------------------------------------------------------------------
(* The prompts of the completion request *)

\* s occurs in p as a contiguous piece
Contains(p, s) ==
    \E a \in 0..(Len(p) - Len(s)) : SubSeq(p, a + 1, a + Len(s)) = s

\* the passage e occurs in p
Mentions(p, e) == \E i \in 1..Len(p) : p[i] = e

\* s without its leading and trailing spaces
StrippedOf(s) ==
    CHOOSE w \in {SubSeq(s, a, b) : a \in 1..(Len(s) + 1), b \in 0..Len(s)} :
        IsTrimOf(w, s)

\* the normalized names of a models array: the first three non-blank entries,
\* trimmed, in request order
ClaimedNames(xs) ==
    [j \in 1..(IF Len(KeptIndexes(xs)) < 3 THEN Len(KeptIndexes(xs)) ELSE 3) |->
        StrippedOf(xs[KeptIndexes(xs)[j]].v)]

\* the lines i..n of the stored snippets, each preceded by a line break
RECURSIVE SnippetLines(_, _, _)
SnippetLines(items, i, n) ==
    IF i > n THEN <<>>
    ELSE <<"NL", "- ">> \o items[i].title \o <<":">> \o items[i].snippet
         \o SnippetLines(items, i + 1, n)

\* the block of one name: the 'no summary available' line when the name has
\* no stored snippet, else the name and its first four snippets
ExpectedBlock(name, sd) ==
    LET items == IF name \in DOMAIN sd THEN sd[name] ELSE <<>>
        n == IF Len(items) < 4 THEN Len(items) ELSE 4
    IN IF n = 0 THEN name \o <<"[:no-summary]">>
       ELSE name \o <<":">> \o SnippetLines(items, 1, n)

\* one block per name, in order, separated by an empty line
RECURSIVE ExpectedDigest(_, _)
ExpectedDigest(names, sd) ==
    IF Len(names) = 0 THEN <<>>
    ELSE ExpectedBlock(Head(names), sd)
         \o (IF Len(names) = 1 THEN <<>>
             ELSE <<"NL", "NL">> \o ExpectedDigest(Tail(names), sd))

\* the fixed passages that only the product template has
ProductPassages ==
    {"[core-rules]", "[examples-are]", "[uneven-coverage]", "[suits-and-not]",
     "[no-list-feel]", "[judgement-not-specs]", "[fragrance-notes]",
     "[background-follows]", "[:no-summary]"}

\* the keys, titles and snippets of the request's searchData
SearchTexts ==
    IF req.searchData.t # "object" THEN {}
    ELSE DOMAIN req.searchData.v
         \cup UNION {UNION {{req.searchData.v[k][i].title,
                             req.searchData.v[k][i].snippet} :
                               i \in 1..Len(req.searchData.v[k])} :
                         k \in DOMAIN req.searchData.v}

\* a completion request was issued for a well-typed request
PromptSent == fetchCount = 1 /\ TitleGiven /\ ModelsTyped

\* C12: the user prompt holds product content exactly when the normalized
\* models list is non-empty: then it names every model, holds the 'who it
\* suits and who it does not' instruction and the search digest verbatim;
\* with an empty list it has no product passage and no text of the request's
\* searchData, even when searchData is non-empty.
C12_ProductContentIffModels ==
    PromptSent =>
        IF NamesGiven
        THEN LET names == ClaimedNames(req.models.v)
             IN /\ \A j \in 1..Len(names) : Contains(sent.user, names[j])
                /\ Mentions(sent.user, "[suits-and-not]")
                /\ Contains(sent.user,
                            ExpectedDigest(names, req.searchData.v))
        ELSE /\ \A e \in ProductPassages : ~Mentions(sent.user, e)
             /\ \A w \in SearchTexts : ~Contains(sent.user, w)

C12_Witness ==
    /\ PromptSent /\ ~NamesGiven
    /\ req.models.t = "array" /\ Len(req.models.v) > 0
    /\ req.searchData.t = "object" /\ DOMAIN req.searchData.v # {}
    /\ Mentions(sent.user, "[plain-requirements]")

\* C18 (as claimed): the timeout failure is reported only when the 120 s timer
\* fired before the fetch settled; a fetch that fails before the timer fires
\* is never reported with the timeout message, whatever its error text.
C18_TimeoutOnlyWhenTimerFired ==
    (pc = "done" /\ resp.hasError /\ resp.error = MsgTimeout) =>
        timer = "fired"

----------------------------------------------------------------------------
(* The normalized output of the search client *)

\* the positions of the complete raw results, in provider order
CompleteIndexes(xs) ==
    SelectSeq([i \in 1..Len(xs) |-> i], LAMBDA i : Complete(xs[i]))

\* res holds exactly the complete results of raw, in order, each mapped to
\* title, snippet, link = url and source 'serpstack'
IsNormalizedOutput(res, raw) ==
    /\ Len(res) = Len(CompleteIndexes(raw))
    /\ \A j \in 1..Len(res) :
         /\ res[j].title = raw[CompleteIndexes(raw)[j]].title.v
         /\ res[j].snippet = raw[CompleteIndexes(raw)[j]].snippet.v
         /\ res[j].link = raw[CompleteIndexes(raw)[j]].url.v
         /\ res[j].source = "serpstack"

\* the search client returned a list for the provider's answer
ClientReturnedList ==
    /\ spc = "done" /\ calls = 1
    /\ provider.t = "json" /\ ~provider.error.present
    /\ Len(provider.organic) > 0

\* C11 (as claimed): the normalized output of the search client holds exactly
\* the raw results whose title, snippet and url are all non-empty, in input
\* order, each mapped to {title, snippet, link = url, source 'serpstack'},
\* and it has at most the requested cap of 10 items.
C11_NormalizedAndCapped ==
    ClientReturnedList =>
        /\ ~QuerySerpstack(provider).thrown /\ ~QuerySerpstack(provider).isNull
        /\ IsNormalizedOutput(QuerySerpstack(provider).list, provider.organic)
        /\ Len(QuerySerpstack(provider).list) <= 10
        /\ sresp.status = 200 => sresp.results = QuerySerpstack(provider).list

----------------------------------------------------------------------------
(* The prompt functions *)

\* a call of fn has returned
Called(fn) == call.fn = fn /\ out.done

\* C13: the prompt built by buildPrompt holds the fragrance passage exactly
\* when contentType is 'beauty' and hasModels is true.
C13_FragranceIffBeautyWithModels ==
    Called("buildPrompt") =>
        (Mentions(out.text, "[fragrance-notes]") <=>
            (call.contentType = JStr(<<"beauty">>) /\ call.hasModels))

C13_Witness ==
    /\ Called("buildPrompt")
    /\ call.contentType = JStr(<<"beauty">>) /\ call.hasModels
    /\ Mentions(out.text, "[fragrance-notes]")

\* C14: in both templates writingStyle 'rational' puts the decision-oriented
\* hint and not the experience-oriented one into the prompt, 'experience' the
\* reverse, and 'random', an omitted or an unrecognized value neither.
C14_StyleHintByPreference ==
    Called("buildPrompt") =>
        /\ Mentions(out.text, "[user-hint-rational]") <=>
              call.writingStyle = JStr(<<"rational">>)
        /\ Mentions(out.text, "[user-hint-experience]") <=>
              call.writingStyle = JStr(<<"experience">>)

C14_Witness ==
    /\ Called("buildPrompt") /\ ~call.hasModels
    /\ call.writingStyle = JStr(<<"experience">>)
    /\ Mentions(out.text, "[user-hint-experience]")
    /\ ~Mentions(out.text, "[user-hint-rational]")

\* the file was read and has a text after trimming
Loaded(file) == file.exists /\ HasInk(file.text)

\* the guidance file named by a content type: its own for appliance, beauty
\* and gift, the discussion file for every other value
FileFor(files, contentType) ==
    IF contentType = JStr(<<"appliance">>) THEN files.appliance
    ELSE IF contentType = JStr(<<"beauty">>) THEN files.beauty
    ELSE IF contentType = JStr(<<"gift">>) THEN files.gift
    ELSE files.discussion

\* C15: selectContentPrompt returns a text for every content type, non-empty
\* whenever the discussion text is non-empty: the matching block for
\* appliance, beauty and gift when that block was loaded, the discussion
\* block for every other value and when the matching block failed to load;
\* selectStyleHint returns a non-empty hint only for 'rational' and
\* 'experience'.
C15_SelectorsTotal ==
    /\ Called("selectContentPrompt") =>
          /\ Loaded(call.files.discussion) => Len(out.text) > 0
          /\ IF Loaded(FileFor(call.files, call.contentType))
             THEN IsTrimOf(out.text, FileFor(call.files, call.contentType).text)
             ELSE IF Loaded(call.files.discussion)
             THEN IsTrimOf(out.text, call.files.discussion.text)
             ELSE out.text = <<>>
    /\ Called("selectStyleHint") =>
          (Len(out.text) > 0 <=>
              call.writingStyle \in {JStr(<<"rational">>),
                                     JStr(<<"experience">>)})

C15_Witness ==
    /\ Called("selectContentPrompt")
    /\ call.contentType = JStr(<<"gift">>)
    /\ call.files.gift.exists /\ ~Loaded(call.files.gift)
    /\ Loaded(call.files.beauty)
    /\ Loaded(call.files.discussion)
    /\ out.text = <<"D">>

\* the name occurs in the list
Listed(name, names) == \E i \in 1..Len(names) : names[i] = name

\* the digest returned is the one the claim describes
DigestAsClaimed ==
    /\ ~out.threw
    /\ out.text = ExpectedDigest(call.models, call.searchData)
    /\ \A k \in DOMAIN call.searchData :
         \A i \in 1..Len(call.searchData[k]) :
            /\ Contains(out.text, call.searchData[k][i].snippet) <=>
                  (Listed(k, call.models) /\ i <= 4)
            /\ Contains(out.text, call.searchData[k][i].title) <=>
                  (Listed(k, call.models) /\ i <= 4)

\* C17 (as claimed): the digest has exactly one block per model name, in
\* order; a name whose searchData entry is missing or empty gets the 'no
\* summary available' line, any other its first min(4, n) snippets in stored
\* order as '- title: snippet' lines; no fifth snippet and no text stored
\* under a key that is not among the names appears.
C17_DigestBlocks == Called("formatSearchData") => DigestAsClaimed

\* the same for names that no object inherits a property under
C17_OrdinaryNames ==
    (Called("formatSearchData")
       /\ \A i \in 1..Len(call.models) : call.models[i] \in {<<"a">>, <<"b">>})
      => DigestAsClaimed

----------------------------------------------------------------------------
(* Determinism of the generate handler *)

\* the response without the time it was generated at
Undated(r) == [r EXCEPT !.metadata.generatedAt = 0]

----------------------------------------------------------------------------
(* The form page *)

\* C19 (as claimed): under addModel, removeModel, updateModelName and
\* handleReset the entries of the models state have pairwise distinct ids.
C19_DistinctIds ==
    \A i, j \in 1..Len(form.models) :
        i # j => form.models[i].id # form.models[j].id

\* every result in rs was returned by a search for the name n
FetchedFor(rs, n) == \A i \in 1..Len(rs) : rs[i] = n

\* C20 (as claimed): under any interleaving of updateModelName, removeModel,
\* addModel, handleReset and the completions of searches in flight, the
\* results an entry holds were returned by a search for the entry's current
\* trimmed name; so every searchData value handleSubmit sends under a name
\* was fetched for that name.
C20_ResultsMatchName ==
    /\ \A i \in 1..Len(form.models) :
         FetchedFor(form.models[i].results, StrippedOf(form.models[i].name))
    /\ \A n \in DOMAIN payload.searchData :
         FetchedFor(payload.searchData[n], n)

----------------------------------------------------------------------------
(* The result page *)

\* the searchData key of a metadata object is present and holds sd
HoldsSearchData(metadata, sd) ==
    metadata.hasSearchData /\ metadata.searchData = sd

\* C21 (as claimed): whatever handleRegenerate calls have succeeded, the
\* metadata the result page holds and the metadata in sessionStorage contain
\* the searchData saved at first generation, and no regenerate has issued a
\* /api/search request.
C21_SearchDataKept ==
    view.mounted =>
        /\ HoldsSearchData(view.metadata, saved.metadata.searchData)
        /\ HoldsSearchData(stored.metadata, saved.metadata.searchData)
        /\ regen.searches = 0

\* the request carries the title, models, contentType and stylePreference of
\* the metadata
CarriesStored(request, metadata) ==
    /\ request.title = metadata.title
    /\ request.models = metadata.models
    /\ request.contentType = metadata.contentType
    /\ request.stylePreference = metadata.stylePreference

\* C22 (as claimed): once handleRegenerate has been called on the stored
\* metadata of a generated article (its title is non-empty), a /api/generate
\* request has been issued, and the last one issued carries the stored title,
\* models, contentType and stylePreference; this includes articles generated
\* with an empty models list.
C22_RegenerateIssuesRequest ==
    (regen.started >= 1 /\ Len(saved.metadata.title) > 0) =>
        /\ regen.generates >= 1
        /\ CarriesStored(regen.request, saved.metadata)

\* C23 (as claimed): the text the user left in the editor is the text of the
\* page until 'cancel edit' or a successful regenerate replaces it: every
\* copy and download exported the editor's text of that moment, and the page
\* displays the editor's text, the editor open or closed.
C23_EditedTextKept ==
    /\ exported.how # "none" => exported.text = exported.edited
    /\ view.mounted => Displayed(view) = view.editedContent

====
